---- MODULE Spec2Model ----
(***************************************************************************)
(* A model of computatoalgraph.c: scalar reverse-mode autograd.            *)
(* The heap maps the address of every live Value to its struct fields.     *)
(* Doubles are modelled by integers; the constructors are restricted to    *)
(* operands on which the double arithmetic of the program is exact.        *)
(***************************************************************************)
EXTENDS Integers, Sequences, FiniteSets, TLC

\* ---------------------------------------------------------------- bounds
MaxNodes == 3       \* Values a caller constructs
NumSlots == 3       \* slots of the visited table the arena covers
MaxVal == 2         \* magnitude of the leaf values
MaxBackward == 2    \* backward() calls of one run
MaxDepth == 6       \* call frames the stack can hold in zero_grad_graph
MaxRewire == 1      \* direct writes of a caller into a children array
MaxPowArg == 4      \* magnitude of the operands my_pow is called with
MaxChain == 101     \* Values of the long chain: one more than topo[] holds

\* ------------------------------------------------------ program constants
TableSize == 100    \* int visited[100]
TopoCap == 100      \* Value *topo[100]
NULL == 0

\* The arena: blocks of 48 bytes (a 40-byte Value and its header).  Block c
\* starts at Lo(c); Hi(c) lies 1200 bytes above it, which is a multiple of
\* 48 and of 100, so Lo(c) and Hi(c) share a slot of the visited table.
Lo(c) == 48 * c
Hi(c) == 48 * c + 12 * TableSize
LeafVals == {0 - MaxVal, MaxVal}
\* main constructs eight Values
MainSlots == 8

VARIABLES heap,     \* address -> [data, grad, children, backward]
          status,   \* "running", "exited" (exit(1)), "crashed" (stack exhausted)
          last,     \* the call that was made last: [op, root, failed, clean]
          topo,     \* topo[0..count-1] as written by the last build_topo
          visited,  \* slots of visited[] set by the last build_topo
          oob,      \* the last build_topo indexed topo[] or visited[] outside 0..99
          calls,    \* nodes whose operator rule the last backward invoked, in order
          writes,   \* address -> number of v->grad = 0.0 writes of the last zero_grad_graph
          zeroed,   \* nodes zeroed by zero_grad_graph since the last backward
          nback,    \* number of backward() calls so far
          nrewire,  \* number of direct children[] writes so far
          built,    \* the caller has finished the expression and runs passes on it
          pc,       \* position in main (0 outside main)
          local,    \* main's local variables
          allocated,\* every address new_value ever returned
          freed     \* address -> number of free() calls on it

vars == <<heap, status, last, topo, visited, oob, calls, writes, zeroed,
          nback, nrewire, built, pc, local, allocated, freed>>

\* ------------------------------------------------------------- helpers
Nodes == DOMAIN heap

RECURSIVE Pow(_, _)
Pow(b, e) == IF e <= 0 THEN 1 ELSE b * Pow(b, e - 1)

Children(h, v) == {h[v].children[i] : i \in 1..Len(h[v].children)}

\* The nodes each node reaches over operand edges, by repeated doubling
\* of the path length.
RECURSIVE Closure(_, _)
Closure(h, f) ==
    LET g == [n \in DOMAIN h |-> f[n] \cup UNION {f[m] : m \in f[n] \cap DOMAIN h}]
    IN IF g = f THEN f ELSE Closure(h, g)

ReachAll(h) == Closure(h, [n \in DOMAIN h |-> {n} \cup Children(h, n)])

Reach(h, r) == ReachAll(h)[r]

\* r lies on a cycle of operand edges, or reaches one
Cyclic(h, r) ==
    LET clo == ReachAll(h)
    IN \E v \in clo[r] \cap DOMAIN h :
           \E c \in Children(h, v) \cap DOMAIN h : v \in clo[c]

\* ------------------------------------------------------------ new_value
\* The struct new_value fills in; the op functions set backward afterwards.
new_value(d, ch) ==
    [data |-> d, grad |-> 0, children |-> ch, backward |-> "NULL"]

\* First fit: the lowest free block of an arena of n blocks.
FirstFit(h, n) ==
    LET free == {c \in 1..n : Lo(c) \notin DOMAIN h}
    IN {Lo(c) : c \in {d \in free : \A e \in free : d <= e}}

\* Addresses malloc may return for a new Value: the lowest free block of the
\* arena, or a block that shares its slot with a live Value.
Malloc(h, n) ==
    FirstFit(h, n)
    \cup {Hi(c) : c \in {d \in 1..n : Lo(d) \in DOMAIN h /\ Hi(d) \notin DOMAIN h}}

\* free_value(v): the children array and the node are released.
free_value(h, v) ==
    IF v = NULL THEN h ELSE [n \in (DOMAIN h) \ {v} |-> h[n]]

\* ------------------------------------------------------- operator rules
backward_add(h, out) ==
    IF Len(h[out].children) < 2 THEN h
    ELSE LET c0 == h[out].children[1]
             c1 == h[out].children[2]
             h1 == [h EXCEPT ![c0].grad = @ + h[out].grad]
         IN [h1 EXCEPT ![c1].grad = @ + h1[out].grad]

backward_mul(h, out) ==
    IF Len(h[out].children) < 2 THEN h
    ELSE LET c0 == h[out].children[1]
             c1 == h[out].children[2]
             h1 == [h EXCEPT ![c0].grad = @ + h[c1].data * h[out].grad]
         IN [h1 EXCEPT ![c1].grad = @ + h1[c0].data * h1[out].grad]

ExpGradBackwardPow(h, out) ==
    IF Len(h[out].children) < 2 THEN h
    ELSE LET c0 == h[out].children[1]
             c1 == h[out].children[2]
             base == h[c0].data
             exp_val == h[c1].data
             h1 == [h EXCEPT ![c0].grad =
                        @ + (exp_val * Pow(base, exp_val - 1)) * h[out].grad]
         IN [h1 EXCEPT ![c1].grad = @ + Pow(base, exp_val) * h1[out].grad]

backward_pow(h, out) ==
    IF Len(h[out].children) < 2 THEN h
    ELSE LET c0 == h[out].children[1]
             c1 == h[out].children[2]
             base == h[c0].data
             exp_val == h[c1].data
         IN [h EXCEPT ![c0].grad =
                 @ + (exp_val * Pow(base, exp_val - 1)) * h[out].grad]

backward_exp(h, out) ==
    IF Len(h[out].children) < 1 THEN h
    ELSE LET c0 == h[out].children[1]
         IN [h EXCEPT ![c0].grad = @ + h[out].data * h[out].grad]

backward_relu(h, out) ==
    IF Len(h[out].children) < 1 THEN h
    ELSE LET c0 == h[out].children[1]
         IN [h EXCEPT ![c0].grad =
                 @ + (IF h[out].data > 0 THEN 1 ELSE 0) * h[out].grad]

\* topo[i]->backward(topo[i])
CallRule(h, v) ==
    CASE h[v].backward = "_backward_add" -> backward_add(h, v)
      [] h[v].backward = "_backward_mul" -> backward_mul(h, v)
      [] h[v].backward = "_backward_pow" -> backward_pow(h, v)
      [] h[v].backward = "_backward_exp" -> backward_exp(h, v)
      [] h[v].backward = "_backward_relu" -> backward_relu(h, v)
      [] OTHER -> h

\* ------------------------------------------------------------ build_topo
NoModHash(v) == v

Hash(v) == v % TableSize

RECURSIVE build_topo(_, _, _), build_topo_children(_, _, _, _)
build_topo(h, v, st) ==
    IF Hash(v) \notin 0..(TableSize - 1) THEN [st EXCEPT !.oob = TRUE]
    ELSE IF Hash(v) \in st.visited THEN st
    ELSE LET st1 == [st EXCEPT !.visited = @ \cup {Hash(v)}]
             st2 == build_topo_children(h, v, 1, st1)
         IN IF Len(st2.topo) < TopoCap
            THEN [st2 EXCEPT !.topo = Append(@, v)]
            ELSE [st2 EXCEPT !.oob = TRUE]

build_topo_children(h, v, i, st) ==
    IF i > Len(h[v].children) THEN st
    ELSE build_topo_children(h, v, i + 1, build_topo(h, h[v].children[i], st))

\* -------------------------------------------------------------- backward
\* The reverse loop: i = count-1 .. 0 (here Len(order) .. 1).
RECURSIVE backward_loop(_, _, _, _)
backward_loop(h, order, i, log) ==
    IF i < 1 THEN [heap |-> h, calls |-> log]
    ELSE IF h[order[i]].backward # "NULL"
         THEN backward_loop(CallRule(h, order[i]), order, i - 1,
                            Append(log, [node |-> order[i], g |-> h[order[i]].grad]))
         ELSE backward_loop(h, order, i - 1, log)

backward(h, v) ==
    LET bt == build_topo(h, v, [topo |-> <<>>, visited |-> {}, oob |-> FALSE])
        h1 == [h EXCEPT ![v].grad = 1]
        run == backward_loop(h1, bt.topo, Len(bt.topo), <<>>)
    IN [heap |-> run.heap, calls |-> run.calls, topo |-> bt.topo,
        visited |-> bt.visited, oob |-> bt.oob]

\* -------------------------------------------------------- zero_grad_graph
\* st = [heap, writes, overflow]; depth counts the live call frames.
RECURSIVE zero_grad_graph(_, _, _), zero_grad_children(_, _, _, _)
ZeroGradNoDescend(v, st, depth) ==
    IF v = NULL THEN st
    ELSE [st EXCEPT !.heap[v].grad = 0, !.writes[v] = @ + 1]

zero_grad_graph(v, st, depth) ==
    IF st.overflow THEN st
    ELSE IF depth > MaxDepth THEN [st EXCEPT !.overflow = TRUE]
    ELSE IF v = NULL THEN st
    ELSE LET st1 == [st EXCEPT !.heap[v].grad = 0, !.writes[v] = @ + 1]
         IN zero_grad_children(v, 1, st1, depth)

zero_grad_children(v, i, st, depth) ==
    IF st.overflow \/ i > Len(st.heap[v].children) THEN st
    ELSE zero_grad_children(v, i + 1,
             zero_grad_graph(st.heap[v].children[i], st, depth + 1), depth)

\* ------------------------------------------------------------------ Init
NoCall == [op |-> "none", root |-> NULL, failed |-> FALSE, clean |-> TRUE]

Init ==
    /\ heap = <<>>
    /\ status = "running"
    /\ last = NoCall
    /\ topo = <<>>
    /\ visited = {}
    /\ oob = FALSE
    /\ calls = <<>>
    /\ writes = <<>>
    /\ zeroed = {}
    /\ nback = 0
    /\ nrewire = 0
    /\ built = FALSE
    /\ pc = 0
    /\ local = <<>>
    /\ allocated = {}
    /\ freed = <<>>

Clean(h) == \A n \in DOMAIN h : h[n].grad = 0

\* --------------------------------------------------- the op functions
\* One call of new_value on behalf of op function name: malloc returns one
\* of the addresses addrs, or NULL for the node or for its children array,
\* and then new_value calls exit(1).
Construct(name, d, ch, rule, addrs) ==
    /\ status = "running"
    /\ \/ \E a \in addrs :
            /\ heap' = heap @@ (a :> [new_value(d, ch) EXCEPT !.backward = rule])
            /\ allocated' = allocated \cup {a}
            /\ last' = [op |-> name, root |-> a, failed |-> FALSE, clean |-> Clean(heap)]
            /\ status' = status
       \/ /\ heap' = heap
          /\ allocated' = allocated
          /\ last' = [op |-> name, root |-> NULL, failed |-> TRUE, clean |-> Clean(heap)]
          /\ status' = "exited"
    /\ UNCHANGED <<topo, visited, oob, calls, writes, zeroed, nback, nrewire, built, freed>>

CanBuild == pc = 0 /\ ~built /\ Cardinality(allocated) < MaxNodes

make_leaf(d) ==
    /\ CanBuild
    /\ Construct("new_value", d, <<>>, "NULL", Malloc(heap, NumSlots))
    /\ UNCHANGED <<pc, local>>

add(a, b) ==
    /\ CanBuild
    /\ Construct("add", heap[a].data + heap[b].data, <<a, b>>, "_backward_add",
                 Malloc(heap, NumSlots))
    /\ UNCHANGED <<pc, local>>

mul(a, b) ==
    /\ CanBuild
    /\ Construct("mul", heap[a].data * heap[b].data, <<a, b>>, "_backward_mul",
                 Malloc(heap, NumSlots))
    /\ UNCHANGED <<pc, local>>

\* pow(base, exp_val) and pow(base, exp_val - 1) are exact on small integers
\* with an exponent >= 1
PowExact(h, base, exp_val) ==
    /\ h[base].data \in (0 - MaxPowArg)..MaxPowArg
    /\ h[exp_val].data \in 1..MaxPowArg

my_pow(base, exp_val) ==
    /\ CanBuild
    /\ PowExact(heap, base, exp_val)
    /\ Construct("my_pow", Pow(heap[base].data, heap[exp_val].data),
                 <<base, exp_val>>, "_backward_pow", Malloc(heap, NumSlots))
    /\ UNCHANGED <<pc, local>>

\* exp() is exact on the integers at 0 only: exp(0.0) = 1.0
my_exp(a) ==
    /\ CanBuild
    /\ heap[a].data = 0
    /\ Construct("my_exp", 1, <<a>>, "_backward_exp", Malloc(heap, NumSlots))
    /\ UNCHANGED <<pc, local>>

relu(a) ==
    /\ CanBuild
    /\ Construct("relu", IF heap[a].data > 0 THEN heap[a].data ELSE 0,
                 <<a>>, "_backward_relu", Malloc(heap, NumSlots))
    /\ UNCHANGED <<pc, local>>

\* ------------------------------------------------------------ the passes
Backward(v) ==
    /\ status = "running"
    /\ pc = 0
    /\ nback < MaxBackward
    /\ LET r == backward(heap, v)
       IN /\ heap' = r.heap
          /\ topo' = r.topo
          /\ visited' = r.visited
          /\ oob' = r.oob
          /\ calls' = r.calls
    /\ last' = [op |-> "backward", root |-> v, failed |-> FALSE, clean |-> Clean(heap)]
    /\ zeroed' = {}
    /\ nback' = nback + 1
    /\ built' = TRUE
    /\ UNCHANGED <<status, writes, nrewire, pc, local, allocated, freed>>

ZeroGradGraph(v) ==
    /\ status = "running"
    /\ pc = 0
    /\ LET r == zero_grad_graph(v, [heap |-> heap,
                                    writes |-> [n \in Nodes |-> 0],
                                    overflow |-> FALSE], 1)
       IN /\ heap' = r.heap
          /\ writes' = r.writes
          /\ zeroed' = zeroed \cup {n \in Nodes : r.writes[n] > 0}
          /\ status' = IF r.overflow THEN "crashed" ELSE status
    /\ last' = [op |-> "zero_grad_graph", root |-> v, failed |-> FALSE, clean |-> Clean(heap)]
    /\ built' = TRUE
    /\ UNCHANGED <<topo, visited, oob, calls, nback, nrewire, pc, local, allocated, freed>>

\* A caller stores another node into an operand slot: struct Value is public
\* and children[] is plain mutable memory.
SetChild(v, i, w) ==
    /\ status = "running"
    /\ pc = 0
    /\ ~built
    /\ nrewire < MaxRewire
    /\ heap' = [heap EXCEPT ![v].children[i] = w]
    /\ heap[v].backward = "_backward_pow" =>
           PowExact(heap', heap'[v].children[1], heap'[v].children[2])
    /\ nrewire' = nrewire + 1
    /\ zeroed' = zeroed
    /\ last' = [op |-> "set_child", root |-> v, failed |-> FALSE, clean |-> Clean(heap)]
    /\ UNCHANGED <<status, topo, visited, oob, calls, writes, nback, built, pc, local, allocated, freed>>

Next ==
    \/ \E d \in LeafVals : make_leaf(d)
    \/ \E a, b \in Nodes : add(a, b)
    \/ \E a, b \in Nodes : mul(a, b)
    \/ \E a, b \in Nodes : my_pow(a, b)
    \/ \E a \in Nodes : my_exp(a)
    \/ \E a \in Nodes : relu(a)
    \/ \E v \in Nodes : Backward(v)
    \/ \E v \in Nodes : ZeroGradGraph(v)

Spec == Init /\ [][Next]_vars

NextCyc ==
    \/ Next
    \/ \E v \in Nodes : \E i \in 1..Len(heap[v].children) : \E w \in Nodes : SetChild(v, i, w)

SpecCyc == Init /\ [][NextCyc]_vars

\* ------------------------------------------------------------------ main
\* pc numbers the statements of main that touch the graph:
\*   1 a, 2 b, 3 c = new_value(..);  4 mul_out = mul(a, b);
\*   5 the argument new_value(2.0, NULL, 0) of my_pow;  6 pow_out = my_pow(c, .);
\*   7 add_out = add(mul_out, pow_out);  8 f = relu(add_out);  9 backward(f);
\*   10..16 free_value(a, b, c, mul_out, pow_out, add_out, f);  17 return 0.
MainLeaf == (1 :> <<"a", 2>>) @@ (2 :> <<"b", 3>>) @@ (3 :> <<"c", 0 - 2>>)
            @@ (5 :> <<"tmp", 2>>)
MainFree == (10 :> "a") @@ (11 :> "b") @@ (12 :> "c") @@ (13 :> "mul_out")
            @@ (14 :> "pow_out") @@ (15 :> "add_out") @@ (16 :> "f")
MainReturn == 17

InitMain ==
    /\ heap = <<>>
    /\ status = "running"
    /\ last = NoCall
    /\ topo = <<>>
    /\ visited = {}
    /\ oob = FALSE
    /\ calls = <<>>
    /\ writes = <<>>
    /\ zeroed = {}
    /\ nback = 0
    /\ nrewire = 0
    /\ built = FALSE
    /\ pc = 1
    /\ local = <<>>
    /\ allocated = {}
    /\ freed = <<>>

\* name = <the call of the statement>: the result is stored unless new_value exited
Assign(name) ==
    /\ pc' = pc + 1
    /\ local' = IF last'.failed THEN local ELSE local @@ (name :> last'.root)

main_new_value ==
    /\ pc \in DOMAIN MainLeaf
    /\ Construct("new_value", MainLeaf[pc][2], <<>>, "NULL", Malloc(heap, MainSlots))
    /\ Assign(MainLeaf[pc][1])

main_mul ==
    /\ pc = 4
    /\ Construct("mul", heap[local.a].data * heap[local.b].data,
                 <<local.a, local.b>>, "_backward_mul", Malloc(heap, MainSlots))
    /\ Assign("mul_out")

main_my_pow ==
    /\ pc = 6
    /\ Construct("my_pow", Pow(heap[local.c].data, heap[local.tmp].data),
                 <<local.c, local.tmp>>, "_backward_pow", Malloc(heap, MainSlots))
    /\ Assign("pow_out")

main_add ==
    /\ pc = 7
    /\ Construct("add", heap[local.mul_out].data + heap[local.pow_out].data,
                 <<local.mul_out, local.pow_out>>, "_backward_add",
                 Malloc(heap, MainSlots))
    /\ Assign("add_out")

main_relu ==
    /\ pc = 8
    /\ Construct("relu", IF heap[local.add_out].data > 0
                         THEN heap[local.add_out].data ELSE 0,
                 <<local.add_out>>, "_backward_relu", Malloc(heap, MainSlots))
    /\ Assign("f")

main_backward ==
    /\ pc = 9
    /\ status = "running"
    /\ LET r == backward(heap, local.f)
       IN /\ heap' = r.heap
          /\ topo' = r.topo
          /\ visited' = r.visited
          /\ oob' = r.oob
          /\ calls' = r.calls
    /\ last' = [op |-> "backward", root |-> local.f, failed |-> FALSE, clean |-> Clean(heap)]
    /\ nback' = nback + 1
    /\ pc' = pc + 1
    /\ UNCHANGED <<status, writes, zeroed, nrewire, built, local, allocated, freed>>

main_free_value ==
    /\ pc \in DOMAIN MainFree
    /\ status = "running"
    /\ LET v == local[MainFree[pc]]
       IN /\ heap' = free_value(heap, v)
          /\ freed' = IF v \in DOMAIN freed THEN [freed EXCEPT ![v] = @ + 1]
                      ELSE freed @@ (v :> 1)
          /\ last' = [op |-> "free_value", root |-> v, failed |-> FALSE, clean |-> Clean(heap)]
    /\ pc' = pc + 1
    /\ UNCHANGED <<status, topo, visited, oob, calls, writes, zeroed, nback, nrewire,
                   built, local, allocated>>

main_return ==
    /\ pc = MainReturn
    /\ status = "running"
    /\ status' = "exited"
    /\ pc' = pc + 1
    /\ last' = [op |-> "return", root |-> NULL, failed |-> FALSE, clean |-> Clean(heap)]
    /\ UNCHANGED <<heap, topo, visited, oob, calls, writes, zeroed, nback, nrewire,
                   built, local, allocated, freed>>

NextMain ==
    \/ main_new_value
    \/ main_mul
    \/ main_my_pow
    \/ main_add
    \/ main_relu
    \/ main_backward
    \/ main_free_value
    \/ main_return

SpecMain == InitMain /\ [][NextMain]_vars

\* ------------------------------------------------------------ long chains
\* A caller that builds x1 = new_value(1.0), x2 = mul(x1, x1), x3 = mul(x2, x2),
\* .. in a fresh arena, may close a cycle by storing the newest node into an
\* operand slot, and runs backward on the newest node.  Every mul allocates a
\* 48-byte block for the Value and a 32-byte block for its children array,
\* so consecutive nodes lie 80 bytes apart.
ChainLo(c) == 80 * c

ChainFit(h) ==
    LET free == {c \in 1..MaxChain : ChainLo(c) \notin DOMAIN h}
    IN {ChainLo(c) : c \in {d \in free : \A e \in free : d <= e}}

Top(h) == CHOOSE n \in DOMAIN h : \A m \in DOMAIN h : m <= n

chain_leaf ==
    /\ pc = 0
    /\ ~built
    /\ heap = <<>>
    /\ Construct("new_value", 1, <<>>, "NULL", ChainFit(heap))
    /\ UNCHANGED <<pc, local>>

chain_mul ==
    /\ pc = 0
    /\ ~built
    /\ heap # <<>>
    /\ nrewire = 0
    /\ Cardinality(allocated) < MaxChain
    /\ LET a == Top(heap)
       IN Construct("mul", heap[a].data * heap[a].data, <<a, a>>, "_backward_mul",
                    ChainFit(heap))
    /\ UNCHANGED <<pc, local>>

chain_set_child(v, i) ==
    /\ heap # <<>>
    /\ nrewire = 0
    /\ SetChild(v, i, Top(heap))

chain_backward ==
    /\ heap # <<>>
    /\ Backward(Top(heap))

NextChain ==
    \/ chain_leaf
    \/ chain_mul
    \/ \E v \in Nodes : \E i \in 1..Len(heap[v].children) : chain_set_child(v, i)
    \/ chain_backward

SpecChain == Init /\ [][NextChain]_vars

\* ================================================================ claims
Range(q) == {q[i] : i \in 1..Len(q)}
Consumers(h, n) == {m \in DOMAIN h : n \in Children(h, m)}
IndexOf(q, n) == {i \in 1..Len(q) : q[i].node = n}

\* C1: after backward(root) the order built by build_topo holds every node
\* reachable from root exactly once, and every operand strictly before each
\* of its consumers.
C1_TopoOrder ==
    last.op = "backward" =>
        /\ Range(topo) = Reach(heap, last.root)
        /\ \A i, j \in 1..Len(topo) : i # j => topo[i] # topo[j]
        /\ \A j \in 1..Len(topo) : \A o \in Children(heap, topo[j]) :
               \E i \in 1..(j - 1) : topo[i] = o

\* C2: backward(root) invokes the operator rule of every reachable non-leaf
\* node exactly once, and only after the rules of all its reachable consumers.
C2_RuleOrder ==
    last.op = "backward" =>
        \A n \in Reach(heap, last.root) :
            heap[n].backward # "NULL" =>
                /\ Cardinality(IndexOf(calls, n)) = 1
                /\ \A m \in Consumers(heap, n) \cap Reach(heap, last.root) :
                       \E i \in IndexOf(calls, m) : \A j \in IndexOf(calls, n) : i < j

\* d out / d (operand i of out), for Add and Multiply
Local(h, out, i) ==
    IF h[out].backward = "_backward_mul" THEN h[h[out].children[3 - i]].data ELSE 1

\* d r / d n: the sum over the operand paths from r to n of the products of
\* the local derivatives
RECURSIVE Deriv(_, _, _), DerivFrom(_, _, _, _)
Deriv(h, r, n) == IF r = n THEN 1 ELSE DerivFrom(h, r, n, 1)
DerivFrom(h, r, n, i) ==
    IF i > Len(h[r].children) THEN 0
    ELSE Local(h, r, i) * Deriv(h, h[r].children[i], n) + DerivFrom(h, r, n, i + 1)

AddMulOnly(h, r) ==
    \A n \in Reach(h, r) : h[n].backward \in {"NULL", "_backward_add", "_backward_mul"}

\* C3: on a graph of leaves, Add and Multiply nodes whose gradients were all
\* 0 before the call, backward(root) leaves in every reachable node the
\* derivative of root with respect to that node.
C3_Gradients ==
    (last.op = "backward" /\ last.clean /\ AddMulOnly(heap, last.root)) =>
        \A n \in Reach(heap, last.root) : heap[n].grad = Deriv(heap, last.root, n)

\* C4: zero_grad_graph(root) writes the gradient of every node reachable from
\* root exactly once, whatever its fan-in.
C4_VisitOnce ==
    last.op = "zero_grad_graph" =>
        \A n \in Reach(heap, last.root) : writes[n] = 1

\* C5: a zero_grad_graph(root) step returns normally, leaves every node
\* reachable from root at gradient 0 and changes no value, operand or rule;
\* and every node zeroed since the last backward pass is still at 0 after any
\* later step (a second reset, a reset of an overlapping subgraph).
C5_ResetIdempotent ==
    [][ /\ \A n \in zeroed' : heap'[n].grad = 0
        /\ last'.op = "zero_grad_graph" =>
              /\ status' = "running"
              /\ DOMAIN heap' = DOMAIN heap
              /\ \A n \in DOMAIN heap :
                    /\ heap'[n].data = heap[n].data
                    /\ heap'[n].children = heap[n].children
                    /\ heap'[n].backward = heap[n].backward
              /\ \A n \in Reach(heap, last'.root) : heap'[n].grad = 0
      ]_vars

\* a second reset of a graph of several nodes, after a backward pass
C5_Witness ==
    /\ last.op = "zero_grad_graph"
    /\ last.clean
    /\ nback >= 1
    /\ Cardinality(Reach(heap, last.root)) >= 3
    /\ \E n \in Reach(heap, last.root) : writes[n] >= 2

\* C6: when malloc fails inside new_value the failure comes back to the
\* caller: the process is still running and the graph is as it was.
C6_AllocFailureReturned ==
    last.failed => status = "running"

\* C7: a traversal of a graph whose operand edges form a cycle reports an
\* error to its caller and returns.
C7_CycleDetected ==
    (last.op \in {"backward", "zero_grad_graph"} /\ Cyclic(heap, last.root)) =>
        (last.failed /\ status = "running")

\* C8: in main's teardown no live node holds a freed node as an operand, no
\* node is freed twice, and at the end every constructed node is freed.
C8_SafeTeardown ==
    /\ \A m \in DOMAIN heap : Children(heap, m) \subseteq DOMAIN heap
    /\ \A n \in DOMAIN freed : freed[n] <= 1
    /\ pc > MainReturn => allocated \subseteq DOMAIN freed

\* the sum of the base contributions of the invocations of the Power node p
RECURSIVE BaseContribution(_, _, _, _)
BaseContribution(h, log, p, i) ==
    IF i > Len(log) THEN 0
    ELSE (IF log[i].node = p
          THEN h[h[p].children[2]].data
               * Pow(h[h[p].children[1]].data, h[h[p].children[2]].data - 1)
               * log[i].g
          ELSE 0) + BaseContribution(h, log, p, i + 1)

ExponentOnly(h, n) ==
    /\ Consumers(h, n) # {}
    /\ \A m \in Consumers(h, n) :
          /\ h[m].backward = "_backward_pow"
          /\ h[m].children[1] # n
          /\ h[m].children[2] = n

BaseAndExponent(h, n, p) ==
    /\ Consumers(h, n) = {p}
    /\ h[p].backward = "_backward_pow"
    /\ h[p].children = <<n, n>>

\* C9: a backward(root) step leaves the gradient of a node that is used only
\* as the exponent of Power nodes as it was, and adds to a node that is both
\* operands of one Power node only exp * base^(exp-1) * g.
C9_ExponentFrozen ==
    [][ last'.op = "backward" =>
          \A n \in (DOMAIN heap) \ {last'.root} :
              /\ ExponentOnly(heap, n) => heap'[n].grad = heap[n].grad
              /\ \A p \in DOMAIN heap :
                     BaseAndExponent(heap, n, p) =>
                         heap'[n].grad = heap[n].grad + BaseContribution(heap, calls', p, 1)
      ]_vars

\* the rule of a Power node ran with a non-zero gradient and changed its base
C9_Witness ==
    /\ last.op = "backward"
    /\ \E i \in 1..Len(calls) :
          LET p == calls[i].node
          IN /\ heap[p].backward = "_backward_pow"
             /\ calls[i].g # 0
             /\ heap[heap[p].children[1]].grad # 0
             /\ ExponentOnly(heap, heap[p].children[2])
             /\ heap[heap[p].children[2]].grad = 0

\* C10: build_topo emits a node only after it claimed a free slot of the
\* 100-slot visited table, so count never exceeds 100, no index leaves
\* topo[] or visited[], and the reverse loop reads only written entries.
C10_TopoInBounds ==
    last.op = "backward" =>
        /\ ~oob
        /\ visited \subseteq 0..(TableSize - 1)
        /\ \A i \in 1..Len(topo) : Hash(topo[i]) \in visited
        /\ \A i, j \in 1..Len(topo) : i # j => Hash(topo[i]) # Hash(topo[j])
        /\ Len(topo) <= Cardinality(visited)
        /\ Len(topo) <= TopoCap
        /\ \A i \in 1..Len(calls) : calls[i].node \in Range(topo)

\* backward on a cyclic graph of more nodes than topo[] has entries
C10_Witness ==
    /\ last.op = "backward"
    /\ Cardinality(DOMAIN heap) > TopoCap
    /\ Len(topo) >= 2
    /\ Cardinality(Reach(heap, last.root)) > TopoCap
    /\ Cyclic(heap, last.root)

====
